---- MODULE Spec2Model ----
(***************************************************************************)
(* Model of the RSS scraper (src/asdasdaadaadadaadadadsdasdasdasadda.py).  *)
(*                                                                         *)
(* Spec        : scrape_and_save_rss_posts, the pagination loop, the       *)
(*               ThreadPoolExecutor of every page and the process_post     *)
(*               tasks that run in it, interleaved.                        *)
(* SpecPost    : one process_post call, statement by statement: content    *)
(*               location, download_images, the exporters, the record.     *)
(* SpecResolve : determine_rss_feed_url with is_blogspot_site, detect_cms  *)
(*               and find_rss_feed.                                        *)
(***************************************************************************)
EXTENDS Integers, Sequences, FiniteSets, TLC

\* ---------------------------------------------------------------- bounds
\* Largest number of entries one feed page returns in the model.
MaxPageSize == 2
\* Largest number of non-empty pages the feed serves in the model.
MaxPages == 2
\* Largest number of img elements in a document of the model.
MaxImages == 2

\* ------------------------------------------------------ program constants
\* ThreadPoolExecutor(max_workers=5)
MaxWorkers == 5
\* start_index = 1, post_counter = 1
InitialOffset == 1
InitialCounter == 1

Modes == {"PDF", "TXT", "MD", "EPUB"}
Containers == {"post-body", "entry-content", "post-entry"}

\* A file that has not been written, and a file holding a list of records.
NoFile == [exists |-> FALSE, records |-> <<>>]
FileOf(list) == [exists |-> TRUE, records |-> list]

VARIABLES
    \* ---- scrape_and_save_rss_posts (main thread)
    pc,             \* "fetch", "submit", "join", "unwind", "done", "aborted"
    mode,           \* the export mode of the run
    debug,          \* the debug flag of the run
    start_index,    \* offset cursor
    post_counter,   \* folder sequence number, next to hand out
    entries,        \* feed positions of the entries of the current page
    futures,        \* indexes (into tasks) of the futures of the current page
    joined,         \* number of futures whose result() has returned
    tasks,          \* every process_post task submitted in the run
    metadata,       \* the shared metadata list
    siteFolder,     \* does <output_dir>/<site_host> exist
    postFolders,    \* post folders created: records [num, entry]
    metadata_json,  \* content of metadata.json, NoFile when not written
    json_writes,    \* number of times metadata.json was written
    metadata_csv,   \* content of metadata.csv, NoFile when not written
    fetchLog,       \* per fetch_rss_feed call: [start, n], n = -1 for bozo
    served,         \* number of entries the feed has returned so far
    \* ---- one process_post call, statement by statement (SpecPost)
    ppc,            \* "fetch", "images", "export", "render", "done",
                    \* "returned", "raised"
    download_images_separately,
    post_content,   \* the fetched document
    is_blogspot,    \* is_blogspot_site(post_url) is not None
    has_post_body,
    post_body_div,  \* the content located at lines 483-490 (read by the
                    \* image download only, never by the export)
    images,         \* the img elements download_images iterates over
    img_i,          \* index of the next element of images
    files,          \* names of the files in the post's images folder
    img_log,        \* what was printed or logged for each image handled
    exported,       \* the content handed to the exporter
    export_result,  \* "ok", "logged" or "raised"
    temp_html,      \* convert_to_pdf's temporary HTML file: "none" (never
                    \* written), "written" (on disk) or "removed"
    record,         \* the record appended by this call
    \* ---- determine_rss_feed_url (SpecResolve)
    rpc,            \* "probe", "detect", "find", "returned"
    rss_url,        \* the argument
    requests_log,   \* the HTTP requests sent so far
    cms_type,       \* result of detect_cms
    feed_i,         \* index of the next candidate of find_rss_feed
    result          \* the value returned

mainVars == <<pc, mode, debug, start_index, post_counter, entries, futures,
              joined, tasks, metadata, siteFolder, postFolders, metadata_json,
              json_writes, metadata_csv, fetchLog, served>>

postVars == <<ppc, download_images_separately, post_content, is_blogspot,
              has_post_body, post_body_div, images, img_i, files, img_log,
              exported, export_result, temp_html, record>>

resVars == <<rpc, rss_url, requests_log, cms_type, feed_i, result>>

vars == <<mainVars, postVars, resVars>>

\* ------------------------------------------------- strings and URLs
\* A string is a sequence of characters.  URLs use the scheme "h".
NoSrc == <<>>
NoDoc == [containers |-> {}, imgs |-> <<>>]

LastIndexOf(str, c) ==
    LET S == {k \in 1..Len(str) : str[k] = c}
    IN IF S = {} THEN 0 ELSE CHOOSE k \in S : \A m \in S : m <= k

FirstIndexOf(str, c) ==
    LET S == {k \in 1..Len(str) : str[k] = c}
    IN IF S = {} THEN 0 ELSE CHOOSE k \in S : \A m \in S : k <= m

Drop(str, n) == SubSeq(str, n + 1, Len(str))

\* os.path.splitext(p)[1]: from the last dot of the last path component, unless
\* that component has only dots before it.
splitext_ext(p) ==
    LET sep == LastIndexOf(p, "/")
        dot == LastIndexOf(p, ".")
    IN IF dot > sep /\ \E k \in (sep + 1)..(dot - 1) : p[k] # "."
       THEN Drop(p, dot - 1)
       ELSE <<>>

\* str.lower()
lower(str) ==
    LET low(c) == CASE c = "J" -> "j" [] c = "P" -> "p" [] c = "G" -> "g"
                    [] c = "N" -> "n" [] c = "I" -> "i" [] c = "F" -> "f"
                    [] c = "E" -> "e" [] c = "S" -> "s" [] c = "V" -> "v"
                    [] OTHER -> c
    IN [k \in 1..Len(str) |-> low(str[k])]

\* Line 203: the allow-list of extensions.
AllowedExts == {<<".", "j", "p", "g">>, <<".", "j", "p", "e", "g">>, <<".", "p", "n", "g">>, <<".", "g", "i", "f">>}

HasScheme(u) == Len(u) >= 2 /\ u[1] = "h" /\ u[2] = ":"
HasNetloc(r) == Len(r) >= 2 /\ r[1] = "/" /\ r[2] = "/"

\* urlsplit(url).path
url_path(u) ==
    LET r1 == IF HasScheme(u) THEN Drop(u, 2) ELSE u
        r2 == IF HasNetloc(r1)
              THEN LET rest == Drop(r1, 2)
                       sl == FirstIndexOf(rest, "/")
                   IN IF sl = 0 THEN <<>> ELSE Drop(rest, sl - 1)
              ELSE r1
        q == FirstIndexOf(r2, "?")
    IN IF q = 0 THEN r2 ELSE SubSeq(r2, 1, q - 1)

\* Scheme and host of an absolute URL.
url_origin(u) == SubSeq(u, 1, Len(u) - Len(Drop(Drop(u, 2), 2))
                                + (IF FirstIndexOf(Drop(Drop(u, 2), 2), "/") = 0
                                   THEN Len(Drop(Drop(u, 2), 2))
                                   ELSE FirstIndexOf(Drop(Drop(u, 2), 2), "/") - 1))

basename(p) == Drop(p, LastIndexOf(p, "/"))

\* Lines 58-59: sanitize_filename
sanitize_filename(name) ==
    SelectSeq(name, LAMBDA c : c \notin {"\\", "/", "*", "?", ":", "\"", "<", ">", "|"})

\* Lines 62-64: sanitize_url
sanitize_url(u) == sanitize_filename(basename(url_path(u)))

\* urljoin(base, src) for an absolute, a root-relative and a relative src.
urljoin(base, src) ==
    IF HasScheme(src) THEN src
    ELSE IF src[1] = "/" THEN url_origin(base) \o src
    ELSE LET bp == url_path(base)
         IN url_origin(base) \o SubSeq(bp, 1, LastIndexOf(bp, "/")) \o src

\* The feed URL that process_post passes to download_images as the base.
FeedUrl == <<"h", ":", "/", "/", "x", "/", "f", "?", "r">>

\* The src attributes of the img elements of the model's documents.
ImgSrcs == {
    <<"/", "b", ".", "P", "N", "G">>,
    <<"c", ".", "s", "v", "g">>,
    <<"h", ":", "/", "/", "y", "/", "e", ".", "s", "v", "g", "?", "f", "=", ".", "p", "n", "g">>,
    NoSrc}

\* ------------------------------------------------------------- helpers
\* Line 485: find('div', class_='post-body') or find(... 'entry-content') or
\* find(... 'post-entry'); "none" stands for None.
FirstMatch(doc) ==
    IF "post-body" \in doc.containers THEN "post-body"
    ELSE IF "entry-content" \in doc.containers THEN "entry-content"
    ELSE IF "post-entry" \in doc.containers THEN "post-entry"
    ELSE "none"

\* A flag that is set whatever was found.
HasPostBodyAlways(doc, blogspot) == TRUE

\* process_post, lines 483-490: the has_post_body flag.
HasPostBody(doc, blogspot) ==
    IF blogspot THEN FirstMatch(doc) # "none" ELSE TRUE

\* A store into the last slot in place of an append.
ListAppendOverwrite(list, rec) ==
    IF Len(list) = 0 THEN <<rec>> ELSE [list EXCEPT ![Len(list)] = rec]

\* list.append(record): one atomic bytecode under the interpreter lock.
ListAppend(list, rec) == Append(list, rec)

\* The outcomes an exporter call can have in a mode:
\*   "ok"     the file was written
\*   "logged" the failure was caught and logged (except OSError: log_error)
\*   "raised" the failure left the exporter as an exception
\* save_as_txt / save_as_markdown catch OSError around the only I/O they do;
\* convert_to_pdf catches OSError around pdfkit.from_file only (the
\* configuration lookup and the temporary file write are outside the try);
\* save_as_epub has no exception handler at all.
ExportOutcomes(m) ==
    CASE m \in {"TXT", "MD"} -> {"ok", "logged"}
      [] m = "PDF"           -> {"ok", "logged", "raised"}
      [] m = "EPUB"          -> {"ok", "raised"}

Terminal(st) == st \in {"done", "skipped", "raised"}
Active(st) == st \in {"running", "checked"}

NumActive == Cardinality({i \in 1..Len(tasks) : Active(tasks[i].st)})

\* The variables of the other specifications, at rest.
MainIdle ==
    /\ pc = "idle"
    /\ debug = FALSE
    /\ start_index = InitialOffset
    /\ post_counter = InitialCounter
    /\ entries = <<>>
    /\ futures = <<>>
    /\ joined = 0
    /\ tasks = <<>>
    /\ metadata = <<>>
    /\ siteFolder = FALSE
    /\ postFolders = {}
    /\ metadata_json = NoFile
    /\ json_writes = 0
    /\ metadata_csv = NoFile
    /\ fetchLog = <<>>
    /\ served = 0

PostIdle ==
    /\ ppc = "idle"
    /\ download_images_separately = FALSE
    /\ post_content = NoDoc
    /\ is_blogspot = FALSE
    /\ has_post_body = FALSE
    /\ post_body_div = "unset"
    /\ images = <<>>
    /\ img_i = 1
    /\ files = {}
    /\ img_log = <<>>
    /\ exported = "unset"
    /\ export_result = "unset"
    /\ temp_html = "none"
    /\ record = <<>>

ResolveIdle ==
    /\ rpc = "idle"
    /\ rss_url = <<>>
    /\ requests_log = <<>>
    /\ cms_type = "unset"
    /\ feed_i = 1
    /\ result = <<>>

\* ---------------------------------------------------------------- Init
Init ==
    /\ pc = "fetch"
    /\ mode \in Modes
    /\ debug \in BOOLEAN
    /\ start_index = InitialOffset
    /\ post_counter = InitialCounter
    /\ entries = <<>>
    /\ futures = <<>>
    /\ joined = 0
    /\ tasks = <<>>
    /\ metadata = <<>>
    /\ siteFolder \in BOOLEAN
    /\ postFolders = {}
    /\ metadata_json = NoFile
    /\ json_writes = 0
    /\ metadata_csv = NoFile
    /\ fetchLog = <<>>
    /\ served = 0
    /\ PostIdle
    /\ ResolveIdle

\* ------------------------------------------------- main thread actions
\* A loop that ends on a malformed feed only and fetches again after an empty
\* page.
FetchExhaustedBozoOnly ==
    /\ pc = "fetch"
    /\ \E bozo \in BOOLEAN :
         /\ fetchLog' = Append(fetchLog,
                [start |-> start_index, n |-> IF bozo THEN -1 ELSE 0])
         /\ metadata_json' = IF bozo THEN FileOf(metadata) ELSE metadata_json
         /\ json_writes' = IF bozo THEN json_writes + 1 ELSE json_writes
         /\ pc' = IF bozo THEN "done" ELSE "fetch"
    /\ UNCHANGED <<mode, debug, start_index, post_counter, entries, futures,
                   joined, tasks, metadata, siteFolder, postFolders,
                   metadata_csv, served>>
    /\ UNCHANGED <<postVars, resVars>>

\* Lines 562-566 and 584: fetch_rss_feed returns None (bozo) or a feed with
\* no entries: break and save_metadata(as_json=True).
FetchExhausted ==
    /\ pc = "fetch"
    /\ \E bozo \in BOOLEAN :
         fetchLog' = Append(fetchLog,
                [start |-> start_index, n |-> IF bozo THEN -1 ELSE 0])
    /\ metadata_json' = FileOf(metadata)
    /\ json_writes' = json_writes + 1
    /\ pc' = "done"
    /\ UNCHANGED <<mode, debug, start_index, post_counter, entries, futures,
                   joined, tasks, metadata, siteFolder, postFolders,
                   metadata_csv, served>>
    /\ UNCHANGED <<postVars, resVars>>

\* Lines 563-571: a page with n > 0 entries; a new executor and an empty
\* futures list.
FetchPage ==
    /\ pc = "fetch"
    /\ Len(fetchLog) < MaxPages
    /\ \E n \in 1..MaxPageSize :
         /\ fetchLog' = Append(fetchLog, [start |-> start_index, n |-> n])
         /\ entries' = [i \in 1..n |-> served + i]
         /\ served' = served + n
    /\ futures' = <<>>
    /\ joined' = 0
    /\ pc' = "submit"
    /\ UNCHANGED <<mode, debug, start_index, post_counter, tasks, metadata,
                   siteFolder, postFolders, metadata_json, json_writes,
                   metadata_csv>>
    /\ UNCHANGED <<postVars, resVars>>

\* A counter that is never advanced.
NextCounterStuck(c) == c

\* The value of post_counter after one submission (line 574).
NextCounter(c) == c + 1

\* Lines 572-574: executor.submit(process_post, entry, post_counter, ...)
\* and post_counter += 1, for the next entry of the page.
Submit ==
    /\ pc = "submit"
    /\ Len(futures) < Len(entries)
    /\ LET e == entries[Len(futures) + 1]
           t == [page |-> Len(fetchLog), entry |-> e, counter |-> post_counter,
                 st |-> "queued", saw |-> FALSE,
                 exp |-> "none", cause |-> "none"]
       IN /\ tasks' = Append(tasks, t)
          /\ futures' = Append(futures, Len(tasks) + 1)
    /\ post_counter' = NextCounter(post_counter)
    /\ pc' = IF Len(futures) + 1 = Len(entries) THEN "join" ELSE "submit"
    /\ UNCHANGED <<mode, debug, start_index, entries, joined, metadata,
                   siteFolder, postFolders, metadata_json, json_writes,
                   metadata_csv, fetchLog, served>>
    /\ UNCHANGED <<postVars, resVars>>

\* May the main thread leave the executor's with block: __exit__ is
\* shutdown(wait=True), which returns when every task of the pool is over.
PoolJoined == \A k \in 1..Len(futures) : Terminal(tasks[futures[k]].st)

\* A cursor that moves by one per page.
AdvanceOffsetByOne(s, n) == s + 1

\* The cursor after a page (line 579).
AdvanceOffset(s, n) == s + n

\* A join that does not wait for the future, nor for the pool.
JoinNoWait ==
    /\ pc = "join"
    /\ joined < Len(futures)
    /\ joined' = joined + 1
    /\ IF joined + 1 = Len(futures)
       THEN /\ start_index' = AdvanceOffset(start_index, Len(entries))
            /\ metadata_csv' = IF debug THEN FileOf(metadata) ELSE metadata_csv
            /\ pc' = "fetch"
       ELSE UNCHANGED <<start_index, metadata_csv, pc>>
    /\ UNCHANGED <<mode, debug, post_counter, entries, futures, tasks,
                   metadata, siteFolder, postFolders, metadata_json,
                   json_writes, fetchLog, served>>
    /\ UNCHANGED <<postVars, resVars>>

\* Lines 576-582: future.result() of the next future returns normally.  After
\* the last one the with block is left, the cursor advances and, in debug
\* mode, metadata.csv is rewritten.
JoinOk ==
    /\ pc = "join"
    /\ joined < Len(futures)
    /\ tasks[futures[joined + 1]].st \in {"done", "skipped"}
    /\ joined' = joined + 1
    /\ IF joined + 1 = Len(futures)
       THEN /\ PoolJoined
            /\ start_index' = AdvanceOffset(start_index, Len(entries))
            /\ metadata_csv' = IF debug THEN FileOf(metadata) ELSE metadata_csv
            /\ pc' = "fetch"
       ELSE UNCHANGED <<start_index, metadata_csv, pc>>
    /\ UNCHANGED <<mode, debug, post_counter, entries, futures, tasks,
                   metadata, siteFolder, postFolders, metadata_json,
                   json_writes, fetchLog, served>>
    /\ UNCHANGED <<postVars, resVars>>

\* Line 577: future.result() re-raises the exception of the task.
JoinRaise ==
    /\ pc = "join"
    /\ joined < Len(futures)
    /\ tasks[futures[joined + 1]].st = "raised"
    /\ pc' = "unwind"
    /\ UNCHANGED <<mode, debug, start_index, post_counter, entries, futures,
                   joined, tasks, metadata, siteFolder, postFolders,
                   metadata_json, json_writes, metadata_csv, fetchLog, served>>
    /\ UNCHANGED <<postVars, resVars>>

\* Line 570, leaving the with block on an exception: shutdown(wait=True)
\* waits for the tasks of the pool, then the exception leaves
\* scrape_and_save_rss_posts (nothing catches it).
Unwind ==
    /\ pc = "unwind"
    /\ PoolJoined
    /\ pc' = "aborted"
    /\ UNCHANGED <<mode, debug, start_index, post_counter, entries, futures,
                   joined, tasks, metadata, siteFolder, postFolders,
                   metadata_json, json_writes, metadata_csv, fetchLog, served>>
    /\ UNCHANGED <<postVars, resVars>>

\* ---------------------------------------------------- worker actions
\* A pool thread takes the oldest queued work item (FIFO queue, at most
\* max_workers threads).
Dequeue(i) ==
    /\ tasks[i].st = "queued"
    /\ \A j \in 1..(i - 1) : tasks[j].st # "queued"
    /\ NumActive < MaxWorkers
    /\ tasks' = [tasks EXCEPT ![i].st = "running"]
    /\ UNCHANGED <<pc, mode, debug, start_index, post_counter, entries,
                   futures, joined, metadata, siteFolder, postFolders,
                   metadata_json, json_writes, metadata_csv, fetchLog, served>>
    /\ UNCHANGED <<postVars, resVars>>

\* Lines 462-466, fetch_post_content lines 147-152: session.get raises a
\* requests exception, which nothing in process_post catches.
PostFetchRaise(i) ==
    /\ tasks[i].st = "running"
    /\ tasks' = [tasks EXCEPT ![i].st = "raised", ![i].cause = "fetch"]
    /\ UNCHANGED <<pc, mode, debug, start_index, post_counter, entries,
                   futures, joined, metadata, siteFolder, postFolders,
                   metadata_json, json_writes, metadata_csv, fetchLog, served>>
    /\ UNCHANGED <<postVars, resVars>>

\* Lines 150-152 and 465-466: a status other than 200 is logged, None is
\* returned and process_post returns.
PostFetchSkip(i) ==
    /\ tasks[i].st = "running"
    /\ tasks' = [tasks EXCEPT ![i].st = "skipped"]
    /\ UNCHANGED <<pc, mode, debug, start_index, post_counter, entries,
                   futures, joined, metadata, siteFolder, postFolders,
                   metadata_json, json_writes, metadata_csv, fetchLog, served>>
    /\ UNCHANGED <<postVars, resVars>>

\* Lines 462-476: the document is fetched, the site is probed, and the
\* existence of the site folder is tested.  (What the document contains and
\* what is exported from it is followed in SpecPost.)
PostFetchOk(i) ==
    /\ tasks[i].st = "running"
    /\ tasks' = [tasks EXCEPT ![i].st = "checked", ![i].saw = siteFolder]
    /\ UNCHANGED <<pc, mode, debug, start_index, post_counter, entries,
                   futures, joined, metadata, siteFolder, postFolders,
                   metadata_json, json_writes, metadata_csv, fetchLog, served>>
    /\ UNCHANGED <<postVars, resVars>>

\* Line 477: os.makedirs(website_folder) after the test saw no folder, when
\* another task has created it since: FileExistsError.
PostMkdirRaise(i) ==
    /\ tasks[i].st = "checked"
    /\ ~tasks[i].saw
    /\ siteFolder
    /\ tasks' = [tasks EXCEPT ![i].st = "raised", ![i].cause = "mkdir"]
    /\ UNCHANGED <<pc, mode, debug, start_index, post_counter, entries,
                   futures, joined, metadata, siteFolder, postFolders,
                   metadata_json, json_writes, metadata_csv, fetchLog, served>>
    /\ UNCHANGED <<postVars, resVars>>

\* Lines 477-527: the folders are created, the exporter of the mode runs and,
\* unless it raised, the record is appended to the shared list.
PostExport(i) ==
    /\ tasks[i].st = "checked"
    /\ tasks[i].saw \/ ~siteFolder
    /\ siteFolder' = TRUE
    /\ postFolders' = postFolders \cup
                        {[num |-> tasks[i].counter, entry |-> tasks[i].entry]}
    /\ \E o \in ExportOutcomes(mode) :
         /\ IF o = "raised"
            THEN /\ tasks' = [tasks EXCEPT ![i].st = "raised",
                                           ![i].exp = o,
                                           ![i].cause = "export"]
                 /\ UNCHANGED metadata
            ELSE /\ tasks' = [tasks EXCEPT ![i].st = "done", ![i].exp = o]
                 /\ metadata' = ListAppend(metadata,
                        [title |-> tasks[i].entry])
    /\ UNCHANGED <<pc, mode, debug, start_index, post_counter, entries,
                   futures, joined, metadata_json, json_writes, metadata_csv,
                   fetchLog, served>>
    /\ UNCHANGED <<postVars, resVars>>

Worker ==
    \E i \in 1..Len(tasks) :
        \/ Dequeue(i)
        \/ PostFetchRaise(i)
        \/ PostFetchSkip(i)
        \/ PostFetchOk(i)
        \/ PostMkdirRaise(i)
        \/ PostExport(i)

Next ==
    \/ FetchExhausted
    \/ FetchPage
    \/ Submit
    \/ JoinOk
    \/ JoinRaise
    \/ Unwind
    \/ Worker

Spec == Init /\ [][Next]_vars

TypeOK ==
    /\ pc \in {"fetch", "submit", "join", "unwind", "done", "aborted"}
    /\ joined \in 0..Len(futures)

\* =================================================== one process_post call
\* The documents of the model: the recognised containers present, and the img
\* elements in document order.  where = "body": inside the first matching
\* container; "nested": inside a recognised container nested in it;
\* "outside": anywhere else.
ImgElems(c) ==
    {[src |-> u, where |-> w] :
        u \in ImgSrcs,
        w \in IF c = {} THEN {"outside"} ELSE {"outside", "body", "nested"}}

Docs ==
    UNION {{[containers |-> c, imgs |-> q] :
                q \in UNION {[1..n -> ImgElems(c)] : n \in 0..MaxImages}} :
           c \in SUBSET Containers}

\* The empty string extract_content_by_div returns when nothing is found.
EmptyString == "empty-string"

\* Lines 168-174: extract_content_by_div(post_content, div_class)
extract_content_by_div(doc, div_class) ==
    IF div_class \in doc.containers THEN div_class ELSE EmptyString

\* content.find_all('img') for the whole document or for a container.
find_all_img(doc, content) ==
    IF content = "document" THEN doc.imgs
    ELSE SelectSeq(doc.imgs, LAMBDA e : e.where \in {"body", "nested"})

\* Lines 181-189: the images download_images iterates over.  With
\* inside_post_body the container is looked up among the descendants of soup.
DownloadList(doc, soup, inside_post_body) ==
    IF inside_post_body
    THEN IF soup = "document"
         THEN IF FirstMatch(doc) = "none" THEN <<>>
              ELSE find_all_img(doc, FirstMatch(doc))
         ELSE SelectSeq(doc.imgs, LAMBDA e : e.where = "nested")
    ELSE find_all_img(doc, soup)

\* Lines 202-204: the extension filter of download_images.
ExtAllowed(u) == lower(splitext_ext(u)) \in AllowedExts

PostInit ==
    /\ MainIdle
    /\ ResolveIdle
    /\ mode \in Modes
    /\ ppc = "fetch"
    /\ download_images_separately \in BOOLEAN
    /\ post_content = NoDoc
    /\ is_blogspot = FALSE
    /\ has_post_body = FALSE
    /\ post_body_div = "unset"
    /\ images = <<>>
    /\ img_i = 1
    /\ files = {}
    /\ img_log = <<>>
    /\ exported = "unset"
    /\ export_result = "unset"
    /\ temp_html = "none"
    /\ record = <<>>

\* Lines 147-149: session.get raises.
FetchContentRaise ==
    /\ ppc = "fetch"
    /\ ppc' = "raised"
    /\ UNCHANGED <<download_images_separately, post_content, is_blogspot,
                   has_post_body, post_body_div, images, img_i, files, img_log,
                   exported, export_result, temp_html, record>>
    /\ UNCHANGED <<mainVars, resVars>>

\* Lines 150-152 and 465-466: status other than 200, process_post returns.
FetchContentNone ==
    /\ ppc = "fetch"
    /\ ppc' = "returned"
    /\ UNCHANGED <<download_images_separately, post_content, is_blogspot,
                   has_post_body, post_body_div, images, img_i, files, img_log,
                   exported, export_result, temp_html, record>>
    /\ UNCHANGED <<mainVars, resVars>>

\* Lines 462-503: the document is fetched, the site is probed, the content is
\* located and download_images is entered (lines 177-195).
LocateContent ==
    /\ ppc = "fetch"
    /\ \E doc \in Docs, b \in BOOLEAN :
         LET hpb == HasPostBody(doc, b)
             list == IF ~download_images_separately THEN <<>>
                     ELSE IF b /\ hpb
                          THEN DownloadList(doc, FirstMatch(doc), TRUE)
                          ELSE DownloadList(doc, "document", FALSE)
         IN /\ post_content' = doc
            /\ is_blogspot' = b
            /\ has_post_body' = hpb
            /\ post_body_div' = IF b THEN FirstMatch(doc) ELSE "document"
            /\ images' = list
            /\ ppc' = IF list = <<>> THEN "export" ELSE "images"
    /\ img_i' = 1
    /\ UNCHANGED <<download_images_separately, files, img_log, exported,
                   export_result, temp_html, record>>
    /\ UNCHANGED <<mainVars, resVars>>

\* The loop of lines 196-211 moves on to the next element.
NextImage ==
    /\ img_i' = img_i + 1
    /\ ppc' = IF img_i = Len(images) THEN "export" ELSE "images"
    /\ UNCHANGED <<download_images_separately, post_content, is_blogspot,
                   has_post_body, post_body_div, images, exported,
                   export_result, temp_html, record>>
    /\ UNCHANGED <<mainVars, resVars>>

\* Lines 197-198: an img without src.
DownloadNoSrc ==
    /\ ppc = "images"
    /\ images[img_i].src = NoSrc
    /\ NextImage
    /\ img_log' = Append(img_log, "nosrc")
    /\ UNCHANGED files

\* Lines 201 and 210-211: session.get raises, the error is logged.
DownloadRequestError ==
    /\ ppc = "images"
    /\ images[img_i].src # NoSrc
    /\ NextImage
    /\ img_log' = Append(img_log, "error")
    /\ UNCHANGED files

\* A filter that leaves the loop in place of moving on to the next element.
DownloadFilteredBreak ==
    /\ ppc = "images"
    /\ images[img_i].src # NoSrc
    /\ ~ExtAllowed(urljoin(FeedUrl, images[img_i].src))
    /\ img_log' = Append(img_log, "filtered")
    /\ img_i' = img_i + 1
    /\ ppc' = "export"
    /\ UNCHANGED <<download_images_separately, post_content, is_blogspot,
                   has_post_body, post_body_div, images, exported,
                   export_result, temp_html, record, files>>
    /\ UNCHANGED <<mainVars, resVars>>

\* Lines 202-204: the extension is not in the allow-list: continue.
DownloadFiltered ==
    /\ ppc = "images"
    /\ images[img_i].src # NoSrc
    /\ ~ExtAllowed(urljoin(FeedUrl, images[img_i].src))
    /\ NextImage
    /\ img_log' = Append(img_log, "filtered")
    /\ UNCHANGED files

\* Lines 205-209: the file is written.
DownloadWrite ==
    /\ ppc = "images"
    /\ images[img_i].src # NoSrc
    /\ ExtAllowed(urljoin(FeedUrl, images[img_i].src))
    /\ files' = files \cup {sanitize_url(urljoin(FeedUrl, images[img_i].src))}
    /\ img_log' = Append(img_log, "written")
    /\ NextImage

\* Line 207: open() raises OSError, which the handler of line 210 does not
\* catch.
DownloadWriteError ==
    /\ ppc = "images"
    /\ images[img_i].src # NoSrc
    /\ ExtAllowed(urljoin(FeedUrl, images[img_i].src))
    /\ ppc' = "raised"
    /\ UNCHANGED <<download_images_separately, post_content, is_blogspot,
                   has_post_body, post_body_div, images, img_i, files, img_log,
                   exported, export_result, temp_html, record>>
    /\ UNCHANGED <<mainVars, resVars>>

\* Lines 506-519: the content handed to the exporter.
ExportArg(doc, hpb) ==
    IF hpb THEN extract_content_by_div(doc, "post-body") ELSE "document"

\* Lines 240-241 and 370-371: with an images folder the exporter calls
\* find_all on its content, which the empty string does not have; lines
\* 372-383: save_as_epub opens the local copy of every image with a src.
ExportMustRaise(doc, arg) ==
    /\ download_images_separately
    /\ mode \in {"PDF", "EPUB"}
    /\ \/ arg = EmptyString
       \/ /\ mode = "EPUB"
          /\ \E k \in 1..Len(find_all_img(doc, arg)) :
               /\ find_all_img(doc, arg)[k].src # NoSrc
               /\ sanitize_url(find_all_img(doc, arg)[k].src) \notin files

\* Lines 505-527: the exporter of the mode runs on the content, and the
\* record is appended unless the exporter raised.  convert_to_pdf (lines
\* 232-340) either raises before its temporary file exists (configuration
\* lookup, find_all, open) or writes the file and goes on to the renderer.
Export ==
    /\ ppc = "export"
    /\ LET arg == ExportArg(post_content, has_post_body)
       IN /\ exported' = arg
          /\ \E o \in (IF ExportMustRaise(post_content, arg) THEN {"raised"}
                       ELSE IF mode = "PDF" THEN {"raised", "rendering"}
                       ELSE ExportOutcomes(mode)) :
               IF o = "rendering"
               THEN /\ ppc' = "render"
                    /\ temp_html' = "written"
                    /\ UNCHANGED <<export_result, record>>
               ELSE /\ export_result' = o
                    /\ UNCHANGED temp_html
                    /\ IF o = "raised"
                       THEN ppc' = "raised" /\ UNCHANGED record
                       ELSE /\ ppc' = "done"
                            /\ record' = ListAppend(record,
                                            [has_post_body |-> has_post_body])
    /\ UNCHANGED <<download_images_separately, post_content, is_blogspot,
                   has_post_body, post_body_div, images, img_i, files,
                   img_log>>
    /\ UNCHANGED <<mainVars, resVars>>

\* The ways the call of pdfkit.from_file (line 349) can end: it returns, it
\* raises an OSError, or it raises an exception of another class.
RenderOutcomes == {"ok", "OSError", "other"}

\* Lines 342-355 and 521-527: the renderer runs on the temporary file.  An
\* OSError is caught and logged; after the try statement the file is removed
\* and process_post appends the record.  Any other exception leaves
\* convert_to_pdf at line 349.
RenderPdf ==
    /\ ppc = "render"
    /\ \E r \in RenderOutcomes :
         IF r = "other"
         THEN /\ ppc' = "raised"
              /\ export_result' = "raised"
              /\ UNCHANGED <<temp_html, record>>
         ELSE /\ ppc' = "done"
              /\ export_result' = IF r = "ok" THEN "ok" ELSE "logged"
              /\ temp_html' = "removed"
              /\ record' = ListAppend(record,
                              [has_post_body |-> has_post_body])
    /\ UNCHANGED <<download_images_separately, post_content, is_blogspot,
                   has_post_body, post_body_div, images, img_i, files,
                   img_log, exported>>
    /\ UNCHANGED <<mainVars, resVars>>

PostNext ==
    \/ FetchContentRaise
    \/ FetchContentNone
    \/ LocateContent
    \/ DownloadNoSrc
    \/ DownloadRequestError
    \/ DownloadFiltered
    \/ DownloadWrite
    \/ DownloadWriteError
    \/ Export
    \/ RenderPdf

SpecPost == PostInit /\ [][PostNext]_vars

\* ================================================ determine_rss_feed_url
\* Here a URL is a sequence of tokens: scheme, host, then "/" separators and
\* path suffixes.
InputUrls == {
    <<"http://", "x.com">>,
    <<"http://", "x.com", "/">>,
    <<"http://", "x.blogspot.com", "/", "/">>}

\* The textual markers detect_cms looks for in the home page.
Markers == {"blogger.com", "wp-content", "wordpress", "joomla", "drupal"}

\* Line 70: the feed path of the first probe.
BlogspotFeedPath == "/feeds/posts/default?alt=rss"

RECURSIVE rstrip_slash(_)
\* url.rstrip('/')
rstrip_slash(u) ==
    IF u # <<>> /\ u[Len(u)] = "/"
    THEN rstrip_slash(SubSeq(u, 1, Len(u) - 1))
    ELSE u

\* Line 88: "blogspot" in url
ContainsBlogspot(u) == \E k \in 1..Len(u) : u[k] = "x.blogspot.com"

\* Lines 85-105: the classification of the home page, first match wins.
ClassifyHtml(u, html) ==
    IF "blogger.com" \in html \/ ContainsBlogspot(u) THEN "blogspot"
    ELSE IF "wp-content" \in html \/ "wordpress" \in html THEN "wordpress"
    ELSE IF "joomla" \in html THEN "joomla"
    ELSE IF "drupal" \in html THEN "drupal"
    ELSE "unknown"

\* Lines 110-121: the candidate feed paths of a CMS.
potential_feeds(cms) ==
    CASE cms = "wordpress" -> <<"/feed/", "/comments/feed/">>
      [] cms = "joomla"    -> <<"/index.php?option=com_rss&feed=rss">>
      [] cms = "drupal"    -> <<"/rss.xml">>
      [] OTHER             -> <<"/feed/", "/rss.xml", "/atom.xml", "/feeds/">>

\* One HTTP exchange: the request and what came back.
Exchange(method, u, outcome) ==
    [method |-> method, url |-> u, outcome |-> outcome]

ResolveInit ==
    /\ MainIdle
    /\ mode = "TXT"
    /\ PostIdle
    /\ rpc = "probe"
    /\ rss_url \in InputUrls
    /\ requests_log = <<>>
    /\ cms_type = "unset"
    /\ feed_i = 1
    /\ result = <<>>

\* A probe whose result is dropped: the resolver goes on to detect_cms.
ProbeFoundIgnored ==
    /\ rpc = "probe"
    /\ requests_log' = Append(requests_log,
          Exchange("HEAD", Append(rstrip_slash(rss_url), BlogspotFeedPath),
                   "200-xml"))
    /\ rpc' = "detect"
    /\ UNCHANGED <<rss_url, cms_type, feed_i, result>>
    /\ UNCHANGED <<mainVars, postVars>>

\* Lines 67-76 and 532-534: the HEAD of the platform-A feed URL answers 200
\* with an XML content type; that URL is returned.
ProbeFound ==
    /\ rpc = "probe"
    /\ LET blogspot_feed_url == Append(rstrip_slash(rss_url), BlogspotFeedPath)
       IN /\ requests_log' = Append(requests_log,
                Exchange("HEAD", blogspot_feed_url, "200-xml"))
          /\ result' = blogspot_feed_url
    /\ rpc' = "returned"
    /\ UNCHANGED <<rss_url, cms_type, feed_i>>
    /\ UNCHANGED <<mainVars, postVars>>

\* Lines 67-79: any other answer, or a request exception: None.
ProbeNone ==
    /\ rpc = "probe"
    /\ \E o \in {"200-other", "non-200", "exception"} :
         requests_log' = Append(requests_log,
            Exchange("HEAD", Append(rstrip_slash(rss_url), BlogspotFeedPath), o))
    /\ rpc' = "detect"
    /\ UNCHANGED <<rss_url, cms_type, feed_i, result>>
    /\ UNCHANGED <<mainVars, postVars>>

\* Lines 82-105 and 537-547: detect_cms fetches the home page; a request
\* exception gives "unknown".  For "blogspot" the original URL is returned.
DetectCms ==
    /\ rpc = "detect"
    /\ \E html \in SUBSET Markers, failed \in BOOLEAN :
         LET cms == IF failed THEN "unknown" ELSE ClassifyHtml(rss_url, html)
         IN /\ requests_log' = Append(requests_log,
                  Exchange("GET", rss_url,
                           IF failed THEN "exception" ELSE "200-other"))
            /\ cms_type' = cms
            /\ IF cms = "blogspot"
               THEN rpc' = "returned" /\ result' = rss_url
               ELSE rpc' = "find" /\ UNCHANGED result
    /\ feed_i' = 1
    /\ UNCHANGED rss_url
    /\ UNCHANGED <<mainVars, postVars>>

\* Lines 124-130 and 543-544: a candidate answers 200 and is returned.
FindFeedFound ==
    /\ rpc = "find"
    /\ feed_i <= Len(potential_feeds(cms_type))
    /\ LET feed_url == Append(rstrip_slash(rss_url),
                              potential_feeds(cms_type)[feed_i])
       IN /\ requests_log' = Append(requests_log,
                Exchange("HEAD", feed_url, "200-other"))
          /\ result' = feed_url
    /\ rpc' = "returned"
    /\ UNCHANGED <<rss_url, cms_type, feed_i>>
    /\ UNCHANGED <<mainVars, postVars>>

\* Lines 124-132: a candidate does not answer 200, or the request raises.
FindFeedNext ==
    /\ rpc = "find"
    /\ feed_i <= Len(potential_feeds(cms_type))
    /\ \E o \in {"non-200", "exception"} :
         requests_log' = Append(requests_log,
            Exchange("HEAD", Append(rstrip_slash(rss_url),
                                    potential_feeds(cms_type)[feed_i]), o))
    /\ feed_i' = feed_i + 1
    /\ UNCHANGED <<rpc, rss_url, cms_type, result>>
    /\ UNCHANGED <<mainVars, postVars>>

\* Lines 133 and 546-547: no candidate answered; the original URL is returned.
FindFeedNone ==
    /\ rpc = "find"
    /\ feed_i > Len(potential_feeds(cms_type))
    /\ result' = rss_url
    /\ rpc' = "returned"
    /\ UNCHANGED <<rss_url, cms_type, feed_i, requests_log>>
    /\ UNCHANGED <<mainVars, postVars>>

ResolveNext ==
    \/ ProbeFound
    \/ ProbeNone
    \/ DetectCms
    \/ FindFeedFound
    \/ FindFeedNext
    \/ FindFeedNone

SpecResolve == ResolveInit /\ [][ResolveNext]_vars

\* ------------------------------------------------------------- claims
RunEnded == pc \in {"done", "aborted"}

\* The future whose exception future.result() re-raised (line 577).
RaisedFuture == tasks[futures[joined + 1]]

RunAbortedBy(cause) ==
    /\ pc \in {"unwind", "aborted"}
    /\ RaisedFuture.cause = cause

\* C2: a failure while fetching one post affects only that post: the run is
\* never ended by the exception of a post's fetch; it goes on to the
\* following pages and writes metadata.json.
C2_FetchFailureIsolated ==
    /\ ~RunAbortedBy("fetch")
    /\ (RunEnded /\ \E i \in 1..Len(tasks) : tasks[i].cause = "fetch")
          => metadata_json.exists

\* C3: a failure inside an exporter does not prevent the posts submitted
\* after it, in the same page or in later pages, from being processed and
\* recorded: the run is never ended by the failure of an exporter, and it
\* ends with metadata.json written.
C3_ExporterFailureIsolated ==
    /\ ~RunAbortedBy("export")
    /\ (RunEnded /\ \E i \in 1..Len(tasks) : tasks[i].exp \in {"logged", "raised"})
          => metadata_json.exists

\* C4: the number in a post's folder name is the 1-based position of the
\* post's entry in the feed, counted across the pages of the run.
C4_FolderNumberIsFeedPosition ==
    /\ \A f \in postFolders : f.num = f.entry
    /\ \A i \in 1..Len(tasks) : tasks[i].counter = tasks[i].entry

\* C4 witness: in the second page, the later entry has its folder while the
\* earlier entry of the same page has not finished.
C4_Witness ==
    \E i, j \in 1..Len(tasks) :
        /\ i < j
        /\ tasks[i].page = 2 /\ tasks[j].page = 2
        /\ tasks[j].st = "done"
        /\ ~Terminal(tasks[i].st)
        /\ [num |-> tasks[j].counter, entry |-> tasks[j].entry] \in postFolders

Processed == {i \in 1..Len(tasks) : tasks[i].st = "done"}

\* C5: metadata.json holds exactly one record per processed post.
C5_OneRecordPerProcessedPost ==
    metadata_json.exists =>
        /\ Len(metadata_json.records) = Cardinality(Processed)
        /\ \A i \in Processed :
             Cardinality({k \in 1..Len(metadata_json.records) :
                             metadata_json.records[k].title = tasks[i].entry}) = 1

\* C5 witness: metadata.json is written with the records of two posts of one
\* page that were appended against feed order, next to a skipped post.
C5_Witness ==
    /\ metadata_json.exists
    /\ \E k \in 1..(Len(metadata_json.records) - 1) :
         metadata_json.records[k].title = metadata_json.records[k + 1].title + 1
    /\ \E i \in 1..Len(tasks) : tasks[i].st = "skipped"

\* C6: the first page that is malformed or empty is the last page fetched:
\* the loop is over, and no task belongs to that page or a later one.
C6_ExhaustedAtFirstEmptyPage ==
    \A k \in 1..Len(fetchLog) :
        fetchLog[k].n <= 0 =>
            /\ k = Len(fetchLog)
            /\ pc = "done"
            /\ \A i \in 1..Len(tasks) : tasks[i].page < k

\* C6 witness: the loop is exhausted by an empty third page after two pages
\* of different sizes.
C6_Witness ==
    /\ pc = "done"
    /\ Len(fetchLog) = 3
    /\ fetchLog[1].n # fetchLog[2].n
    /\ fetchLog[3].n = 0

\* C10: every task that has not finished belongs to the page fetched last,
\* and while a page is being fetched no task is unfinished.
C10_OnePageInFlight ==
    /\ \A i \in 1..Len(tasks) :
         ~Terminal(tasks[i].st) => tasks[i].page = Len(fetchLog)
    /\ pc = "fetch" => \A i \in 1..Len(tasks) : Terminal(tasks[i].st)

\* C10 witness: two tasks of the second page run at once, after the tasks of
\* the first page have finished.
C10_Witness ==
    \E i, j \in 1..Len(tasks) :
        /\ i # j
        /\ tasks[i].page = 2 /\ tasks[j].page = 2
        /\ Active(tasks[i].st) /\ Active(tasks[j].st)
        /\ \E h \in 1..Len(tasks) : tasks[h].page = 1

\* The extension download_images computes for an img element (lines 199-202):
\* os.path.splitext of the joined URL, query string included, lower-cased.
ImgExt(e) == lower(splitext_ext(urljoin(FeedUrl, e.src)))

\* C1: for a post on a platform-A site whose document has none of the three
\* containers, has_post_body is false (also in the record) and the exporter
\* is handed the whole document, in every mode.
C1_NoContainerOnPlatformA ==
    (exported # "unset" /\ is_blogspot /\ FirstMatch(post_content) = "none")
        => /\ ~has_post_body
           /\ exported = "document"
           /\ ppc = "done" => record = <<[has_post_body |-> FALSE]>>

\* C1 as stated: the same for every post, platform-A or not.
C1_NoContainerAnySite ==
    (exported # "unset" /\ FirstMatch(post_content) = "none")
        => /\ ~has_post_body
           /\ exported = "document"
           /\ ppc = "done" => record = <<[has_post_body |-> FALSE]>>

\* C1 witness: a platform-A post without a container, with images, has been
\* exported and recorded.
C1_Witness ==
    /\ ppc = "done"
    /\ is_blogspot
    /\ FirstMatch(post_content) = "none"
    /\ post_content.imgs # <<>>
    /\ exported = "document"

C9_ExportedContentIsLocatedContent ==
    (exported # "unset" /\ has_post_body)
        => /\ exported = (IF is_blogspot THEN FirstMatch(post_content)
                          ELSE "document")
           /\ exported # EmptyString

\* C8: whenever the platform-A probe succeeded, determine_rss_feed_url has
\* returned <base>/feeds/posts/default?alt=rss, which is not the original URL,
\* and the HEAD of that URL is the only request that was sent.
C8_ProbedFeedUrlReturned ==
    (requests_log # <<>> /\ requests_log[1].outcome = "200-xml")
        => /\ rpc = "returned"
           /\ result = Append(rstrip_slash(rss_url),
                              "/feeds/posts/default?alt=rss")
           /\ result # rss_url
           /\ requests_log = <<Exchange("HEAD", result, "200-xml")>>

\* C8 witness: the probe succeeded for a base URL with trailing slashes.
C8_Witness ==
    /\ rpc = "returned"
    /\ requests_log # <<>> /\ requests_log[1].outcome = "200-xml"
    /\ rss_url[Len(rss_url)] = "/"

\* C11: every run writes metadata.json exactly once, after the pagination
\* loop is exhausted and not before, with the records of the run; in debug
\* mode (and only then) metadata.csv holds, whenever the next page is about
\* to be fetched, all records appended so far.
C11_MetadataPersistedOnce ==
    /\ RunEnded => json_writes = 1 /\ metadata_json = FileOf(metadata)
    /\ ~RunEnded => json_writes = 0 /\ metadata_json = NoFile
    /\ (debug /\ pc = "fetch" /\ fetchLog # <<>>)
          => metadata_csv = FileOf(metadata)
    /\ ~debug => metadata_csv = NoFile

RECURSIVE EntriesOfPages(_)
\* The number of entries returned by the first k fetches of the run.
EntriesOfPages(k) ==
    IF k <= 0 THEN 0
    ELSE EntriesOfPages(k - 1) + (IF fetchLog[k].n > 0 THEN fetchLog[k].n ELSE 0)

\* The pages whose tasks have all been joined.
PagesJoined ==
    IF pc \in {"fetch", "done"} THEN Len(fetchLog) ELSE Len(fetchLog) - 1

\* C13: the start offset sent with the k-th fetch is 1 plus the number of
\* entries of the pages before it, and the cursor is always 1 plus the number
\* of entries of the pages joined so far.
C13_OffsetIsEntriesSoFar ==
    /\ \A k \in 1..Len(fetchLog) :
         fetchLog[k].start = 1 + EntriesOfPages(k - 1)
    /\ start_index = 1 + EntriesOfPages(PagesJoined)

\* C13 witness: the third fetch is sent with offset 4 after a page of two
\* entries and a page of one entry.
C13_Witness ==
    /\ Len(fetchLog) = 3
    /\ fetchLog[1].n = 2
    /\ fetchLog[2].n = 1
    /\ fetchLog[3].start = 4

\* C14: no task fails on the creation of the site folder or of its post
\* folder, and the run is not ended by such a failure, whatever the
\* interleaving of the tasks of a page.
C14_NoFolderCreationFailure ==
    /\ \A i \in 1..Len(tasks) : tasks[i].cause # "mkdir"
    /\ ~RunAbortedBy("mkdir")

\* C12: once convert_to_pdf has written its temporary HTML file, the file is
\* on disk only while the renderer runs: it no longer exists when
\* convert_to_pdf has been left, whether the renderer succeeded or failed.
C12_TempHtmlRemoved ==
    temp_html = "written" => ppc = "render"
====
